---- MODULE Spec2Model ----
(***************************************************************************)
(* State machine of the ChatRoom component                                 *)
(* (src/src/components/ChatRoom.tsx).                                      *)
(*                                                                         *)
(* The component's state is its useState/useRef cells plus the awaited     *)
(* promises of its async handlers.  JavaScript runs each handler segment   *)
(* (from an event or a promise settlement up to the next await) to         *)
(* completion, so every segment is one atomic action.                      *)
(***************************************************************************)
EXTENDS Integers, Sequences, FiniteSets

----------------------------------------------------------------------------
(* Bounds of the model. *)

\* number of handleSend calls that can be awaiting sendMessage at once
MaxSends == 2
\* number of handleVoiceMessage calls that can be in flight at once
MaxVoice == 2

SendIds == 1..MaxSends
VoiceIds == 1..MaxVoice

----------------------------------------------------------------------------
(* Values. *)

\* Drafts are strings, kept as sequences of characters so that trim() is
\* computed and not assumed.
Whitespace == {" ", "\t", "\n"}

Drafts == {<<>>, <<" ">>, <<"a">>, <<" ", "b">>}

\* content_uri values an upload can resolve with
URIs == {"mxc://u1", "mxc://u2"}
NoUri == "none"

\* clientY values of mouse events (large jumps and positions outside the
\* viewport included)
ClientYs == {-500, 0, 40, 100, 250, 1000}

\* sendError values: null and the two messages the handlers set (the voice
\* message's text is Chinese in the source and is given here in English)
NoError == "null"
SendFailed == "Failed to send message. Please try again."
VoiceFailed == "voice message failed, please retry"

InitialHeight == 100
MinHeight == 100
MaxHeight == 400

----------------------------------------------------------------------------
(* Pure helpers. *)

RECURSIVE TrimStart(_)
TrimStart(s) ==
    IF s # <<>> /\ Head(s) \in Whitespace THEN TrimStart(Tail(s)) ELSE s

RECURSIVE TrimEnd(_)
TrimEnd(s) ==
    IF s # <<>> /\ s[Len(s)] \in Whitespace
    THEN TrimEnd(SubSeq(s, 1, Len(s) - 1))
    ELSE s

\* String.prototype.trim
Trim(s) == TrimEnd(TrimStart(s))

\* !newMessage.trim(): the empty string is the only falsy string
IsBlank(s) == Trim(s) = <<>>

Min(a, b) == IF a < b THEN a ELSE b
Max(a, b) == IF a > b THEN a ELSE b

\* faulty variant of Clamp: the upper limit is missing
ClampNoUpper(h) == Max(h, MinHeight)

\* Math.min(Math.max(h, 100), 400)
Clamp(h) == Min(Max(h, MinHeight), MaxHeight)

----------------------------------------------------------------------------
VARIABLES
    newMessage,             \* useState('')            the draft
    sendError,              \* useState(null)
    isVoiceMessageSending,  \* useState(false)
    textareaHeight,         \* useState(100)
    isResizing,             \* isResizingRef.current
    lastY,                  \* lastYRef.current
    sends,                  \* handleSend calls awaiting sendMessage
    voice,                  \* handleVoiceMessage calls awaiting the client
    client,                 \* getClient() gives a client (TRUE) or null
    disconnected,           \* matrixService.disconnect() has been called
    last                    \* history: the handler segment that ran last

vars == <<newMessage, sendError, isVoiceMessageSending, textareaHeight,
          isResizing, lastY, sends, voice, client,
          disconnected, last>>

msgVars == <<newMessage, sendError, isVoiceMessageSending, sends, voice,
             client, disconnected>>
resizeVars == <<textareaHeight, isResizing, lastY>>

IdleSend == [st |-> "idle", text |-> <<>>]
IdleVoice == [pc |-> "idle", uri |-> NoUri, url |-> NoUri]

\* the record of the last handler segment: its name and, for a settled text
\* send, whether the draft it found differs from the text it carried
Op(name) == [op |-> name, edited |-> FALSE]
SettleOp(name, text, draft) == [op |-> name, edited |-> text # draft]

SendFree == {i \in SendIds : sends[i].st = "idle"}
VoiceFree == {v \in VoiceIds : voice[v].pc = "idle"}
SendsInFlight == {i \in SendIds : sends[i].st = "awaiting"}
VoiceInFlight == {v \in VoiceIds : voice[v].pc # "idle"}
Lowest(S) == CHOOSE x \in S : \A y \in S : x <= y

\* The state after the first render.  Whether matrixService holds a client
\* is decided outside the component; nothing the component calls before
\* handleLogout changes it, so it is chosen once.
Init ==
    /\ newMessage = <<>>
    /\ sendError = NoError
    /\ isVoiceMessageSending = FALSE
    /\ textareaHeight = InitialHeight
    /\ isResizing = FALSE
    /\ lastY = 0
    /\ sends = [i \in SendIds |-> IdleSend]
    /\ voice = [v \in VoiceIds |-> IdleVoice]
    /\ client \in BOOLEAN
    /\ disconnected = FALSE
    /\ last = Op("init")

----------------------------------------------------------------------------
(* The composer: textarea onChange, form submit, Ctrl/Cmd+Enter. *)

\* onChange={(e) => setNewMessage(e.target.value)}
Edit(d) ==
    /\ d # newMessage
    /\ newMessage' = d
    /\ last' = Op("edit")
    /\ UNCHANGED <<sendError, isVoiceMessageSending, sends, voice,
                   client, disconnected, resizeVars>>

\* faulty variant of SendBlank: setSendError(null) moved above the early
\* return
SendBlankClearsError ==
    /\ sendError' = NoError
    /\ last' = Op("sendBlank")
    /\ UNCHANGED <<newMessage, isVoiceMessageSending, sends, voice,
                   client, disconnected, resizeVars>>

\* handleSend on a blank draft: the early return
SendBlank ==
    /\ last' = Op("sendBlank")
    /\ UNCHANGED <<msgVars, resizeVars>>

\* handleSend up to its await: setSendError(null), then the sendMessage call
\* with the draft of this render
SendStart ==
    /\ SendFree # {}
    /\ LET i == Lowest(SendFree) IN
        /\ sends' = [sends EXCEPT ![i] =
                        [st |-> "awaiting", text |-> newMessage]]
        /\ last' = Op("sendStart")
    /\ sendError' = NoError
    /\ UNCHANGED <<newMessage, isVoiceMessageSending, voice, client,
                   disconnected, resizeVars>>

handleSend ==
    IF IsBlank(newMessage) THEN SendBlank ELSE SendStart

\* the form's onSubmit
Submit == handleSend

\* handleKeyDown: Enter with Ctrl or Cmd sends, any other key does nothing here
Keys == {"Enter", "a"}
handleKeyDown(key, ctrlKey, metaKey) ==
    IF key = "Enter" /\ (ctrlKey \/ metaKey)
    THEN handleSend
    ELSE /\ last' = Op("keyDown")
         /\ UNCHANGED <<msgVars, resizeVars>>

\* faulty variant of SendResolved: clears the draft only if it still holds
\* the text that was sent
SendResolvedKeepsEdits(i) ==
    /\ sends[i].st = "awaiting"
    /\ newMessage' = IF newMessage = sends[i].text THEN <<>> ELSE newMessage
    /\ sends' = [sends EXCEPT ![i] = IdleSend]
    /\ last' = SettleOp("sendResolved", sends[i].text, newMessage)
    /\ UNCHANGED <<sendError, isVoiceMessageSending, voice, client,
                   disconnected, resizeVars>>

\* await matrixService.sendMessage resolved: setNewMessage('')
SendResolved(i) ==
    /\ sends[i].st = "awaiting"
    /\ newMessage' = <<>>
    /\ sends' = [sends EXCEPT ![i] = IdleSend]
    /\ last' = SettleOp("sendResolved", sends[i].text, newMessage)
    /\ UNCHANGED <<sendError, isVoiceMessageSending, voice, client,
                   disconnected, resizeVars>>

\* faulty variant of SendRejected: the catch block calls sendMessage again
SendRejectedRetries(i) ==
    /\ sends[i].st = "awaiting"
    /\ sendError' = SendFailed
    /\ last' = SettleOp("sendRejected", sends[i].text, newMessage)
    /\ UNCHANGED <<newMessage, sends, isVoiceMessageSending,
                   voice, client, disconnected, resizeVars>>

\* faulty variant of SendRejected: the catch block also clears the draft
SendRejectedClearsDraft(i) ==
    /\ sends[i].st = "awaiting"
    /\ sendError' = SendFailed
    /\ newMessage' = <<>>
    /\ sends' = [sends EXCEPT ![i] = IdleSend]
    /\ last' = SettleOp("sendRejected", sends[i].text, newMessage)
    /\ UNCHANGED <<isVoiceMessageSending, voice, client, disconnected,
                   resizeVars>>

\* await matrixService.sendMessage rejected: the catch block
SendRejected(i) ==
    /\ sends[i].st = "awaiting"
    /\ sendError' = SendFailed
    /\ sends' = [sends EXCEPT ![i] = IdleSend]
    /\ last' = SettleOp("sendRejected", sends[i].text, newMessage)
    /\ UNCHANGED <<newMessage, isVoiceMessageSending, voice, client,
                   disconnected, resizeVars>>

----------------------------------------------------------------------------
(* Voice messages: handleVoiceMessage, the VoiceRecorder's                 *)
(* onRecordingComplete.  The handler itself has no guard; the recorder's   *)
(* disabled prop is outside this component.                                *)

\* matrixService.getClient() gave null: the throw, the catch block and the
\* finally block run in the same segment
VoiceNoClient ==
    /\ sendError' = VoiceFailed
    /\ isVoiceMessageSending' = FALSE
    /\ last' = Op("voiceNoClient")
    /\ UNCHANGED <<newMessage, sends, voice, client, disconnected,
                   resizeVars>>

\* up to the first await: the flag, setSendError(null), client.uploadContent
VoiceStart ==
    /\ VoiceFree # {}
    /\ LET v == Lowest(VoiceFree) IN
        /\ voice' = [voice EXCEPT ![v] = [pc |-> "uploading", uri |-> NoUri,
                                          url |-> NoUri]]
        /\ last' = Op("voiceStart")
    /\ isVoiceMessageSending' = TRUE
    /\ sendError' = NoError
    /\ UNCHANGED <<newMessage, sends, client, disconnected, resizeVars>>

\* const client = matrixService.getClient(); if (!client) throw ...
handleVoiceMessage ==
    IF client THEN VoiceStart ELSE VoiceNoClient

\* faulty variant of UploadResolved: the message's url is not taken from
\* the upload's response
UploadResolvedFixedUrl(v, u) ==
    /\ voice[v].pc = "uploading"
    /\ voice' = [voice EXCEPT ![v] = [pc |-> "sending", uri |-> u,
                                      url |-> "mxc://u1"]]
    /\ last' = Op("uploadResolved")
    /\ UNCHANGED <<newMessage, sendError, isVoiceMessageSending, sends,
                   client, disconnected, resizeVars>>

\* await client.uploadContent resolved with content_uri u: client.sendMessage
\* with url: response.content_uri
UploadResolved(v, u) ==
    /\ voice[v].pc = "uploading"
    /\ voice' = [voice EXCEPT ![v] = [pc |-> "sending", uri |-> u, url |-> u]]
    /\ last' = Op("uploadResolved")
    /\ UNCHANGED <<newMessage, sendError, isVoiceMessageSending, sends,
                   client, disconnected, resizeVars>>

\* what every exit of the try block does to the call: finally
VoiceFinish(v) ==
    /\ voice' = [voice EXCEPT ![v] = IdleVoice]
    /\ isVoiceMessageSending' = FALSE

\* faulty variant of UploadRejected: the upload is tried again and the call
\* stays in flight
UploadRejectedRetries(v) ==
    /\ voice[v].pc = "uploading"
    /\ last' = Op("uploadRejected")
    /\ UNCHANGED <<msgVars, resizeVars>>

\* await client.uploadContent rejected: catch, finally
UploadRejected(v) ==
    /\ voice[v].pc = "uploading"
    /\ sendError' = VoiceFailed
    /\ VoiceFinish(v)
    /\ last' = Op("uploadRejected")
    /\ UNCHANGED <<newMessage, sends, client, disconnected, resizeVars>>

\* await client.sendMessage resolved: scrollToBottom, finally
VoiceSendResolved(v) ==
    /\ voice[v].pc = "sending"
    /\ VoiceFinish(v)
    /\ last' = Op("voiceSent")
    /\ UNCHANGED <<newMessage, sendError, sends, client, disconnected,
                   resizeVars>>

\* await client.sendMessage rejected: catch, finally
VoiceSendRejected(v) ==
    /\ voice[v].pc = "sending"
    /\ sendError' = VoiceFailed
    /\ VoiceFinish(v)
    /\ last' = Op("voiceSendRejected")
    /\ UNCHANGED <<newMessage, sends, client, disconnected, resizeVars>>

\* a settlement of the promise a voice call awaits
VoiceSettle(v) ==
    \/ \E u \in URIs : UploadResolved(v, u)
    \/ UploadRejected(v)
    \/ VoiceSendResolved(v)
    \/ VoiceSendRejected(v)

----------------------------------------------------------------------------
(* Logout.  matrixService.disconnect() is called and the page reload is    *)
(* requested; the handler installs no cancellation, so until the document  *)
(* is unloaded the awaited promises may still settle and their             *)
(* continuations run.  The unload itself is the behaviour taking no        *)
(* further step.                                                           *)

handleLogout ==
    /\ disconnected' = TRUE
    /\ last' = Op("logout")
    /\ UNCHANGED <<newMessage, sendError, isVoiceMessageSending, sends, voice,
                   client, resizeVars>>

----------------------------------------------------------------------------
(* The resize handle above the composer. *)

handleMouseDown(clientY) ==
    /\ isResizing' = TRUE
    /\ lastY' = clientY
    /\ last' = Op("mouseDown")
    /\ UNCHANGED <<textareaHeight, msgVars>>

handleMouseMove(clientY) ==
    /\ IF ~isResizing
       THEN UNCHANGED <<textareaHeight, lastY>>
       ELSE /\ textareaHeight' = Clamp(textareaHeight + (lastY - clientY))
            /\ lastY' = clientY
    /\ last' = Op("mouseMove")
    /\ UNCHANGED <<isResizing, msgVars>>

handleMouseUp ==
    /\ isResizing' = FALSE
    /\ last' = Op("mouseUp")
    /\ UNCHANGED <<textareaHeight, lastY, msgVars>>

----------------------------------------------------------------------------
(* Specifications.  The resize handlers and the messaging handlers share   *)
(* no state, so each group is explored on its own.                         *)

\* handleLogout ends with window.location.reload(): the user's interaction
\* with this document ends there, and only what is already in flight goes on.
\* No handler reads the connection state, so nothing else depends on it.
Interactive == ~disconnected

Next ==
    \/ \E d \in Drafts : Interactive /\ Edit(d)
    \/ Interactive /\ Submit
    \/ \E key \in Keys, ctrlKey \in BOOLEAN, metaKey \in BOOLEAN :
          Interactive /\ handleKeyDown(key, ctrlKey, metaKey)
    \/ Interactive /\ handleVoiceMessage
    \/ Interactive /\ handleLogout
    \/ \E i \in SendIds : SendResolved(i)
    \/ \E i \in SendIds : SendRejected(i)
    \/ \E v \in VoiceIds : VoiceSettle(v)

Spec == Init /\ [][Next]_vars

\* every awaited client call of a voice message eventually settles
LiveSpec == Spec /\ \A v \in VoiceIds : WF_vars(VoiceSettle(v))

ResizeNext ==
    \/ \E clientY \in ClientYs : handleMouseDown(clientY)
    \/ \E clientY \in ClientYs : handleMouseMove(clientY)
    \/ handleMouseUp

ResizeSpec == Init /\ [][ResizeNext]_vars

----------------------------------------------------------------------------
(* Properties.  A step is recognised by the segment it records in last:    *)
(* every action sets last' to its own name, so last'.op = n holds exactly  *)
(* on the steps of n.                                                      *)

\* transport calls a step issues: matrixService.sendMessage (a send slot
\* starts awaiting), client.uploadContent (a voice call starts uploading),
\* client.sendMessage (a voice call starts sending)
SendCallIssued ==
    \E i \in SendIds : sends[i].st = "idle" /\ sends'[i].st = "awaiting"
UploadCallIssued ==
    \E v \in VoiceIds : voice[v].pc # "uploading" /\ voice'[v].pc = "uploading"
AudioCallIssued ==
    \E v \in VoiceIds : voice[v].pc # "sending" /\ voice'[v].pc = "sending"
CallIssued == SendCallIssued \/ UploadCallIssued \/ AudioCallIssued

\* exactly one awaiting handleSend call ends in this step, the others are
\* left alone
OneSendSettled ==
    \E i \in SendIds :
        /\ sends[i].st = "awaiting"
        /\ sends' = [sends EXCEPT ![i] = IdleSend]

\* C1: while a handleSend call for the current draft is awaiting
\* sendMessage, no step starts another sendMessage call.
C1_SingleFlight ==
    [][(\E i \in SendIds : sends[i].st = "awaiting" /\ sends[i].text = newMessage)
        => ~SendCallIssued]_vars

\* C2: once handleLogout has called disconnect, no step issues a
\* sendMessage or uploadContent call (after logout only the calls that were
\* in flight at the disconnect take steps).
C2_NoCallAfterDisconnect ==
    [][disconnected => ~CallIssued]_vars

\* C3: when sendMessage rejects in handleSend, sendError becomes non-null,
\* the draft stays exactly as it was, that one call ends, and no other
\* state changes (other sends in flight included).
C3_FailureSurfaced ==
    [][last'.op = "sendRejected" =>
        /\ sendError' # NoError
        /\ newMessage' = newMessage
        /\ OneSendSettled
        /\ UNCHANGED <<isVoiceMessageSending, voice, client, disconnected,
                       resizeVars>>]_vars

\* a rejection was surfaced while the non-blank draft is still there and
\* another send is still in flight
C3_Witness ==
    /\ last.op = "sendRejected"
    /\ sendError = SendFailed
    /\ ~IsBlank(newMessage)
    /\ SendsInFlight # {}

\* the attempts of C4: a handleSend call on a non-blank draft issues one
\* sendMessage call, and its settlement issues none and ends the call
C4_OneAttempt ==
    /\ last'.op = "sendStart" =>
          /\ ~IsBlank(newMessage)
          /\ Cardinality(SendsInFlight') = Cardinality(SendsInFlight) + 1
          /\ sendError' = NoError
    /\ last'.op \in {"sendResolved", "sendRejected"} =>
          /\ OneSendSettled
          /\ ~CallIssued
    /\ last'.op = "sendRejected" => sendError' # NoError

\* C4 as stated: one attempt per handleSend call, and the call ends either in
\* success with the draft cleared and sendError null, or with sendError
\* non-null.
C4_AsStated ==
    [][/\ C4_OneAttempt
       /\ last'.op = "sendResolved" => (newMessage' = <<>> /\ sendError' = NoError)]_vars

\* C4 amended: one attempt per handleSend call, and the call ends either in
\* success, which clears the draft and leaves sendError as it finds it (null
\* since this call's start unless another send failed meanwhile), or with
\* sendError non-null.
C4_BoundedAttempts ==
    [][/\ C4_OneAttempt
       /\ last'.op = "sendResolved" => (newMessage' = <<>> /\ sendError' = sendError)]_vars

\* a send succeeded while the error of another send is shown
C4_Witness ==
    /\ last.op = "sendResolved"
    /\ newMessage = <<>>
    /\ sendError # NoError

\* C5: whenever some handleVoiceMessage call is in flight,
\* isVoiceMessageSending is true.
C5_PendingCovers ==
    VoiceInFlight # {} => isVoiceMessageSending

\* C6: every handleVoiceMessage call in flight eventually ends, and the step
\* that ends it (success, failed upload, failed send) as well as the call
\* that finds no client sets isVoiceMessageSending to false.
C6_VoiceEventuallyDone ==
    /\ \A v \in VoiceIds : (voice[v].pc # "idle") ~> (voice[v].pc = "idle")
    /\ [][/\ \A v \in VoiceIds :
                (voice[v].pc # "idle" /\ voice'[v].pc = "idle")
                    => isVoiceMessageSending' = FALSE
          /\ last'.op = "voiceNoClient" => isVoiceMessageSending' = FALSE]_vars

\* the last voice call in flight ended on a rejected send and the recorder
\* is enabled again
C6_Witness ==
    /\ last.op = "voiceSendRejected"
    /\ VoiceInFlight = {}
    /\ isVoiceMessageSending = FALSE

\* C7: textareaHeight starts at 100 and stays within 100..400.
C7_HeightBounded ==
    /\ last.op = "init" => textareaHeight = 100
    /\ 100 <= textareaHeight
    /\ textareaHeight <= 400

\* a drag past the upper limit left the height at the limit
C7_Witness ==
    /\ last.op = "mouseMove"
    /\ isResizing
    /\ textareaHeight = 400
    /\ lastY = -500

\* C8: a voice call sends its m.audio message only on the step where its
\* upload resolved, with that upload's content_uri as url; the call that
\* finds no client and the call whose upload rejects send no message and
\* set sendError.
C8_AudioAfterUpload ==
    /\ [](\A v \in VoiceIds : voice[v].pc = "sending" =>
              (voice[v].uri \in URIs /\ voice[v].url = voice[v].uri))
    /\ [][/\ \A v \in VoiceIds :
                (voice[v].pc # "sending" /\ voice'[v].pc = "sending")
                    => (voice[v].pc = "uploading" /\ last'.op = "uploadResolved")
          /\ last'.op \in {"voiceNoClient", "uploadRejected"} =>
                (~AudioCallIssued /\ sendError' # NoError)
          /\ last'.op = "voiceNoClient" => ~CallIssued]_vars

\* an audio message is in flight with the second content_uri
C8_Witness ==
    \E v \in VoiceIds :
        /\ voice[v].pc = "sending"
        /\ voice[v].uri = "mxc://u2"
        /\ voice[v].url = "mxc://u2"

\* C9: handleSend on an empty or whitespace-only draft issues no
\* sendMessage call and leaves the draft and sendError unchanged.
C9_BlankNoOp ==
    [][(last'.op \in {"sendBlank", "sendStart"} /\ Trim(newMessage) = <<>>) =>
        (~CallIssued /\ UNCHANGED <<newMessage, sendError, sends>>)]_vars

\* handleSend ran on a whitespace-only draft while an earlier error is shown
C9_Witness ==
    /\ last.op = "sendBlank"
    /\ newMessage = <<" ">>
    /\ sendError # NoError

\* C10: the text handed to sendMessage is the draft at the call of
\* handleSend and is not touched by later edits, and the success of the
\* call empties the draft whatever it holds by then.
C10_SuccessClearsDraft ==
    [][/\ last'.op = "sendStart" =>
            \E i \in SendIds :
                /\ sends[i].st = "idle"
                /\ sends' = [sends EXCEPT ![i] =
                                [st |-> "awaiting", text |-> newMessage]]
       /\ \A i \in SendIds :
            (sends[i].st = "awaiting" /\ sends'[i].st = "awaiting")
                => sends'[i].text = sends[i].text
       /\ last'.op = "sendResolved" => newMessage' = <<>>]_vars

\* a send succeeded after the draft had been edited away from the text sent
C10_Witness ==
    /\ last.op = "sendResolved"
    /\ last.edited
    /\ newMessage = <<>>
====
